---- MODULE Spec2Model ----
(***************************************************************************)
(* The delivery coordinator of the Matrix notification bot                 *)
(* (bot_messenger/callbacks.py, class Callbacks) as a state machine.       *)
(*                                                                         *)
(* Handlers are coroutines on one asyncio event loop: a handler runs       *)
(* without interruption up to its next `await`, and other handlers run     *)
(* while it is suspended.  Every action below is one such uninterrupted    *)
(* segment.  notification() handlers are independent tasks (one per        *)
(* accepted HTTP request); the event callbacks (room_encryption, member)   *)
(* are awaited one after the other by the client's sync loop.              *)
(***************************************************************************)
EXTENDS Integers, Sequences, FiniteSets, TLC

\* ------------------------------------------------------------------ bounds
MaxMsgs == 2
MaxEvents == 1
MaxLen == 3
MaxFaults == 1
MaxInvites == 2
MaxCalls == 3
MaxRooms == 2
MaxWaits == 3

\* --------------------------------------------------------------- constants
DUPLICATES_CACHE_SIZE == 1000
MaxCacheEvents == DUPLICATES_CACHE_SIZE + 2

Bot == "@bot:hs"
Users == {"@u1:hs", "@u2:hs"}
None == "None"
NoRoom == -1
\* Room 0 exists before the bot starts; rooms 1.. are created by the bot.
PreRoom == 0
NotificationsRoom == 99
MsgIds == 1..MaxMsgs

\* ------------------------------------------------------------------- state
VARIABLES
    received_events,     \* Callbacks.received_events, most recent first
    rooms_pending,       \* Callbacks.rooms_pending: room id -> list of messages
    user_rooms_pending,  \* Callbacks.user_rooms_pending: user id -> list of messages
    client_rooms,        \* client.rooms, in insertion (= iteration) order
    task,                \* one notification() coroutine per submitted message
    ev,                  \* the event callback the sync loop is awaiting
    nsub,                \* number of messages submitted so far
    nalloc,              \* number of rooms requested from the homeserver so far
    nevents,             \* events delivered besides each room's first encryption event
    sent,                \* log of send_message_to_room invocations
    create_calls,        \* user -> number of create_private_room invocations
    create_resp,         \* user -> number of create_private_room responses handled
    unhandled,           \* handlers that ended with an unhandled exception
    last,                \* the handler segment that ran last
    faults,              \* sends that may still raise in this run
    http,                \* the request httpRequestHandler handled last
    inv,                 \* the invite callback the sync loop is awaiting or ran last
    joins,               \* log of client.join invocations
    rl,                  \* one run of a with_ratelimit wrapper
    found,               \* the last find_private_msg call and its result
    legacy               \* one _send_task coroutine of the legacy sender

vars == <<received_events, rooms_pending, user_rooms_pending, client_rooms, task, ev,
          nsub, nalloc, nevents, sent, create_calls, create_resp, unhandled, last,
          faults, http, inv, joins, rl, found, legacy>>

\* The coordinator and the HTTP handler / the handlers and helpers around them
core == <<received_events, rooms_pending, user_rooms_pending, client_rooms, task, ev,
          nsub, nalloc, nevents, sent, create_calls, create_resp, unhandled, last,
          faults, http>>

periphery == <<inv, joins, rl, found, legacy>>

\* ----------------------------------------------------------------- helpers
Message(id, user, room) ==
    [id |-> id, recipient_user_id |-> user, recipient_room_id |-> room]

Room(rid, enc, users, invited) ==
    [room_id |-> rid, encrypted |-> enc, users |-> users, invited_users |-> invited,
     member_count |-> Cardinality(users \cup invited)]

RoomIds(rooms) == {rooms[i].room_id : i \in 1..Len(rooms)}

RoomAt(rooms, rid) == rooms[CHOOSE i \in 1..Len(rooms) : rooms[i].room_id = rid]

\* `rid in client.rooms and client.rooms[rid].encrypted`
RoomEncrypted(rooms, rid) == rid \in RoomIds(rooms) /\ RoomAt(rooms, rid).encrypted

SetRoom(rooms, rid, room) ==
    [i \in 1..Len(rooms) |-> IF rooms[i].room_id = rid THEN room ELSE rooms[i]]

Pop(d, k) == [x \in DOMAIN d \ {k} |-> d[x]]

Put(d, k, v) == [x \in DOMAIN d \cup {k} |-> IF x = k THEN v ELSE d[x]]

\* Mutant: only joined users are looked at, invited ones are not
is_user_in_room_JoinedOnly(room, mxid) == mxid \in room.users

is_user_in_room(room, mxid) ==
    mxid \in room.users \/ mxid \in room.invited_users

is_room_private_msg(room, mxid) ==
    IF room.member_count = 2 THEN is_user_in_room(room, mxid) ELSE FALSE

\* The first room of client.rooms, in iteration order, that is a private room
\* with mxid; NoRoom stands for Python's None.
find_private_msg(rooms, mxid) ==
    LET hits == {i \in 1..Len(rooms) : is_room_private_msg(rooms[i], mxid)}
    IN  IF hits = {} THEN NoRoom
        ELSE rooms[CHOOSE i \in hits : \A j \in hits : i <= j].room_id

\* Mutant: the cap keeps the end of the list, the oldest ids
trim_duplicates_caches_Tail(re) ==
    IF Len(re) > DUPLICATES_CACHE_SIZE
    THEN SubSeq(re, Len(re) - DUPLICATES_CACHE_SIZE + 1, Len(re)) ELSE re

trim_duplicates_caches(re) ==
    IF Len(re) > DUPLICATES_CACHE_SIZE THEN SubSeq(re, 1, DUPLICATES_CACHE_SIZE) ELSE re

\* Mutant: the id is put in front whether or not the list holds it
should_process_Always(re, event_id) ==
    [ok |-> ~\E i \in 1..Len(re) : re[i] = event_id,
     received_events |-> <<event_id>> \o re]

\* Mutant: the new id goes to the end of the list
should_process_Append(re, event_id) ==
    IF \E i \in 1..Len(re) : re[i] = event_id
    THEN [ok |-> FALSE, received_events |-> re]
    ELSE [ok |-> TRUE, received_events |-> Append(re, event_id)]

\* should_process: the returned flag and the new received_events
should_process(re, event_id) ==
    IF \E i \in 1..Len(re) : re[i] = event_id
    THEN [ok |-> FALSE, received_events |-> re]
    ELSE [ok |-> TRUE, received_events |-> <<event_id>> \o re]

\* One invocation of send_message_to_room(client, message), as logged: the
\* message, the room it goes to, and what client.rooms says about that room at
\* the moment of the call.
\* `by` is the handler that makes the call (the notification() of message m, or
\* 0 for the event callback); `raised` tells whether the call ends in an
\* exception.
SendRecord(rooms, message, by, raised) ==
    LET rid == message.recipient_room_id
        known == rid \in RoomIds(rooms)
    IN  [id |-> message.id,
         room |-> rid,
         user |-> message.recipient_user_id,
         encrypted |-> RoomEncrypted(rooms, rid),
         joined |-> known /\ message.recipient_user_id \in RoomAt(rooms, rid).users,
         by |-> by,
         raised |-> raised]

send_message_to_room(log, rooms, message, by, raised) ==
    Append(log, SendRecord(rooms, message, by, raised))

\* The outcomes the next send can have, and what a raised one costs
Outcomes == IF faults > 0 THEN BOOLEAN ELSE {FALSE}

Spend(raised) == IF raised THEN faults - 1 ELSE faults

\* Mutant: no user is found pending
IsPendingUser_Never(upr, recipient_id) == FALSE

\* Line 68: `recipient_id in self.user_rooms_pending`
IsPendingUser(upr, recipient_id) == recipient_id \in DOMAIN upr

\* Mutant: lines 83-84 forgotten, the copied messages keep their empty room id
MigratedBuffer_Unresolved(upr, recipient_id, rid) == upr[recipient_id]

\* Mutant: the room's queue starts empty, the buffer is dropped with the user's
\* entry
MigratedBuffer_Lost(upr, recipient_id, rid) == <<>>

\* Lines 79 and 83-84: the deep copy of the user's buffer with the room id filled in
MigratedBuffer(upr, recipient_id, rid) ==
    [i \in 1..Len(upr[recipient_id]) |->
        [upr[recipient_id][i] EXCEPT !.recipient_room_id = rid]]

\* Mutant: lines 89-90 / 106-107 forgotten, the triggering message is not queued
QueueWithTrigger_Dropped(queue, message) == queue

\* Lines 89-90 and 106-107: the triggering message joins the room's queue
QueueWithTrigger(queue, message) == Append(queue, message)

\* Mutant: no race check, the flush is left to the next encryption event
EncryptedBeforeAck_Deferred(rooms, rid) == FALSE

\* Mutant: every created room is taken for encrypted
EncryptedBeforeAck_Always(rooms, rid) == TRUE

\* Line 87: the race check after the creation response
EncryptedBeforeAck(rooms, rid) == RoomEncrypted(rooms, rid)

\* Mutant: an encryption event flushes some pending queue when its own room has
\* none
FlushTarget_AnyPending(rp, rid) ==
    IF rid \in DOMAIN rp \/ DOMAIN rp = {} THEN rid ELSE CHOOSE r \in DOMAIN rp : TRUE

\* Lines 168 and 176: the queue room_encryption flushes and pops is the one
\* filed under the room of the event
FlushTarget(rp, rid) == rid

\* Mutant: the loop attempts the message it attempted last once more
NextQueued_Retry(list, idx) == list[IF idx = 0 THEN 1 ELSE idx]

\* Lines 92 and 169: the `for` loop hands out the queue's messages one by one;
\* idx messages have been attempted so far
NextQueued(list, idx) == list[idx + 1]

IdleTask == [pc |-> "idle", path |-> "none", user |-> None, room |-> NoRoom,
             cr |-> NoRoom, ack_enc |-> FALSE, list |-> <<>>, idx |-> 0]

IdleEv == [pc |-> "idle", room |-> NoRoom, list |-> <<>>, idx |-> 0]

Op(name, id, room) ==
    [op |-> name, id |-> id, room |-> room, state_key |-> None, membership |-> None]

\* A segment of member(): the event it was called with is kept
MemberOp(name, event, rid) ==
    [op |-> name, id |-> event.event_id, room |-> rid,
     state_key |-> event.state_key, membership |-> event.membership]

\* Mutant: no room is taken for the notifications room
InNotificationsRoom_Never(rid) == FALSE

\* Line 132: the event comes from the configured notifications room
InNotificationsRoom(rid) == rid = NotificationsRoom

\* Line 145: the event is about the bot's own membership
IsOwnEvent(event) == event.state_key = Bot

\* The notification() call whose room_create request room rid answers, and the
\* user that request invites
Creator(rid) == task[CHOOSE m \in MsgIds : task[m].cr = rid]

Invitee(rid) == Creator(rid).user

AllRooms == 0..MaxMsgs

\* ----------------------------------------------------------------- ingress
\* Header values are sequences of characters; NoHeader is what headers.get()
\* returns for a missing header (Python's None).
Alphabet == {"@", "!", ":", "a", "\n"}

NoHeader == <<None>>

SendTos == UNION {[1..n -> Alphabet] : n \in 0..MaxLen}

\* The Api-Key-Here header is made of key characters and `;`; API_KEY is the
\* configured key.
KeyAlphabet == {"k", ";"}

API_KEY == <<"k">>

KeyHeaders == UNION {[1..n -> KeyAlphabet] : n \in 0..MaxLen}

\* Line 43: str(header).split(';')[0], the header up to its first `;`; a missing
\* header gives the text "None"
ParsedKey(header) ==
    IF header = NoHeader THEN NoHeader
    ELSE LET stops == {i \in 1..Len(header) : header[i] = ";"}
         IN  IF stops = {} THEN header
             ELSE SubSeq(header, 1, (CHOOSE i \in stops : \A j \in stops : i <= j) - 1)

\* Line 54: `api_key == API_KEY`
KeyAccepted(header) == ParsedKey(header) = API_KEY

ContentTypes == {"text/plain", "multipart/form-data", "application/octet-stream"}

\* re.match(sigil + ".*:.*", s): s starts with the sigil, a colon follows, and
\* no newline stands between them (`.` does not match a newline)
re_match(sigil, s) ==
    /\ Len(s) >= 2
    /\ s[1] = sigil
    /\ \E i \in 2..Len(s) : s[i] = ":" /\ \A j \in 2..(i - 1) : s[j] # "\n"

NoMessage == [none |-> TRUE, raised |-> FALSE, message_to |-> NoHeader,
              recipient_user_id |-> NoHeader, recipient_room_id |-> NoHeader,
              is_valid |-> FALSE]

\* BaseMessage.__init__ with validate_message_to (lines 30-49).  Line 41 applies
\* `%` to a string without a conversion, which raises TypeError.
BaseMessage(message_to) ==
    LET fresh == [NoMessage EXCEPT !.none = FALSE, !.message_to = message_to,
                                   !.is_valid = TRUE]
    IN  IF message_to = NoHeader THEN [NoMessage EXCEPT !.raised = TRUE]
        ELSE IF re_match("@", message_to)
        THEN [fresh EXCEPT !.recipient_user_id = message_to]
        ELSE IF re_match("!", message_to)
        THEN [fresh EXCEPT !.recipient_room_id = message_to]
        ELSE [fresh EXCEPT !.is_valid = FALSE]

\* TextMessage.__init__: validate_decodable_text invalidates undecodable data
TextMessage(message_to, decodable) ==
    LET base == BaseMessage(message_to)
    IN  IF base.raised \/ decodable THEN base ELSE [base EXCEPT !.is_valid = FALSE]

\* MediaMessage.__init__: validate_file_extension invalidates a missing file
\* name, a missing extension and an image extension on non-image data
MediaMessage(message_to, file_ok) ==
    LET base == BaseMessage(message_to)
    IN  IF base.raised \/ file_ok THEN base ELSE [base EXCEPT !.is_valid = FALSE]

\* Mutant: a rejected message is handed to the callback all the same
initiate_callback_Always(message) ==
    IF message.none THEN [status |-> 400, scheduled |-> <<>>]
    ELSE IF message.is_valid THEN [status |-> 200, scheduled |-> <<message>>]
    ELSE [status |-> 400, scheduled |-> <<message>>]

\* initiate_callback: the status written and the callbacks handed to
\* EVENT_LOOP.create_task
initiate_callback(message) ==
    IF message.none THEN [status |-> 400, scheduled |-> <<>>]
    ELSE IF message.is_valid THEN [status |-> 200, scheduled |-> <<message>>]
    ELSE [status |-> 400, scheduled |-> <<>>]

\* What the handler left behind: the request, the message it built, whether
\* initiate_callback ran, the status and the scheduled callbacks; status 0
\* stands for no response.
NoRequest == [send_to |-> NoHeader, content_type |-> "none", body_ok |-> FALSE,
              api_key |-> NoHeader, api_ok |-> FALSE, message |-> NoMessage, called |-> FALSE,
              status |-> 0, scheduled |-> <<>>]

\* do_POST (lines 39-67).  body_ok says that the body passes the check of its
\* content type: it decodes as UTF-8 (text, form data) or its file name and type
\* are acceptable (media).
do_POST(api_key, content_type, body_ok, send_to) ==
    LET api_ok == KeyAccepted(api_key)
        request == [NoRequest EXCEPT !.send_to = send_to, !.content_type = content_type,
                                     !.body_ok = body_ok, !.api_key = api_key,
                                     !.api_ok = api_ok]
        message == IF content_type = "multipart/form-data"
                   THEN IF body_ok THEN TextMessage(send_to, TRUE)
                        ELSE [NoMessage EXCEPT !.raised = TRUE]   \* line 58: decode
                   ELSE IF content_type = "text/plain"
                   THEN TextMessage(send_to, body_ok)
                   ELSE MediaMessage(send_to, body_ok)
        response == initiate_callback(message)
    IN
    /\ http' = IF ~api_ok THEN request
               ELSE IF message.raised THEN [request EXCEPT !.message = message]
               ELSE [request EXCEPT !.message = message, !.called = TRUE,
                                    !.status = response.status,
                                    !.scheduled = response.scheduled]
    /\ UNCHANGED <<received_events, rooms_pending, user_rooms_pending, client_rooms, task,
                   ev, nsub, nalloc, nevents, sent, create_calls, create_resp, unhandled,
                   last, faults, periphery>>

\* A request arrives.  The handler reads nothing that an earlier request
\* wrote, so a run shows one request.
Post ==
    /\ http = NoRequest
    /\ \E api_key \in KeyHeaders \cup {NoHeader}, content_type \in ContentTypes,
          body_ok \in BOOLEAN, send_to \in SendTos \cup {NoHeader} :
          do_POST(api_key, content_type, body_ok, send_to)

\* initiate_callback called with None, the case of its first branch (lines
\* 70-72); do_POST itself always passes a message.
CallbackOnNone ==
    LET response == initiate_callback(NoMessage) IN
    /\ http = NoRequest
    /\ http' = [NoRequest EXCEPT !.called = TRUE, !.api_ok = TRUE,
                                 !.status = response.status,
                                 !.scheduled = response.scheduled]
    /\ UNCHANGED <<received_events, rooms_pending, user_rooms_pending, client_rooms, task,
                   ev, nsub, nalloc, nevents, sent, create_calls, create_resp, unhandled,
                   last, faults, periphery>>

\* ------------------------------------------------------------- periphery
\* range(3) of invite()
JoinAttempts == 3

\* No invite event has been dispatched yet
IdleInvite == [pc |-> "idle", event |-> 0, room |-> NoRoom, state_key |-> None,
               attempt |-> 0]

\* The with_ratelimit wrapper has not been called
IdleWrapper == [pc |-> "idle", calls |-> 0, responses |-> <<>>, returned |-> 0]

\* find_private_msg has not been called
NoSearch == [mxid |-> None, room |-> NoRoom]

\* _send_task has not been started
IdleSendTask ==
    [pc |-> "idle", room |-> NoRoom, sends |-> 0, waits |-> 0, woken |-> FALSE]

\* -------------------------------------------------------------------- Init
PreRooms == {<<>>, <<Room(PreRoom, FALSE, {Bot}, {"@u1:hs"})>>}

\* Callbacks.__init__ (lines 35-41) and the bookkeeping of the run, client.rooms
\* left open
AtRest ==
    /\ received_events = <<>>
    /\ rooms_pending = <<>>
    /\ user_rooms_pending = <<>>
    /\ task = [m \in MsgIds |-> IdleTask]
    /\ ev = IdleEv
    /\ nsub = 0
    /\ nalloc = 0
    /\ nevents = 0
    /\ sent = <<>>
    /\ create_calls = [u \in Users |-> 0]
    /\ create_resp = [u \in Users |-> 0]
    /\ unhandled = {}
    /\ last = Op("init", 0, NoRoom)
    /\ http = NoRequest
    /\ inv = IdleInvite
    /\ joins = <<>>
    /\ rl = IdleWrapper
    /\ found = NoSearch
    /\ legacy = IdleSendTask

Constructed ==
    /\ AtRest
    /\ client_rooms \in PreRooms

Init ==
    /\ Constructed
    /\ faults = 0

\* ------------------------------------------------------------ notification
\* Mutant: the message that names its room is queued for the room instead of
\* being sent
NotifyRoom_Enqueue(message) ==
    /\ rooms_pending' =
           Put(rooms_pending, message.recipient_room_id,
               Append(IF message.recipient_room_id \in DOMAIN rooms_pending
                      THEN rooms_pending[message.recipient_room_id] ELSE <<>>,
                      message))
    /\ task' = [task EXCEPT ![message.id] =
                   [IdleTask EXCEPT !.pc = "done", !.path = "room",
                                    !.room = message.recipient_room_id]]
    /\ last' = Op("notification_room", message.id, message.recipient_room_id)
    /\ UNCHANGED <<sent, user_rooms_pending, create_calls, nalloc, unhandled, faults>>

\* Lines 64-65: the message names its room; send_message_to_room is called and
\* the handler is suspended on it
NotifyRoom(message) ==
    \E raised \in Outcomes :
    /\ sent' = send_message_to_room(sent, client_rooms, message, message.id, raised)
    /\ faults' = Spend(raised)
    /\ task' = [task EXCEPT ![message.id] =
                   [IdleTask EXCEPT !.pc = "sending",
                                    !.path = "room",
                                    !.room = message.recipient_room_id]]
    /\ last' = Op("notification_room", message.id, message.recipient_room_id)
    /\ UNCHANGED <<rooms_pending, user_rooms_pending, create_calls, nalloc, unhandled>>

\* Lines 68-70: a creation for the user is under way
NotifyBuffered(message) ==
    /\ user_rooms_pending' =
           [user_rooms_pending EXCEPT ![message.recipient_user_id] = Append(@, message)]
    /\ task' = [task EXCEPT ![message.id] =
                   [IdleTask EXCEPT !.pc = "done", !.path = "buffered",
                                    !.user = message.recipient_user_id]]
    /\ last' = Op("notification_buffered", message.id, NoRoom)
    /\ UNCHANGED <<rooms_pending, sent, create_calls, nalloc, unhandled, faults>>

\* Mutant: the user is not marked pending before the suspension
NotifyCreate_NoMark(message) ==
    /\ create_calls' = [create_calls EXCEPT ![message.recipient_user_id] = @ + 1]
    /\ nalloc' = nalloc + 1
    /\ task' = [task EXCEPT ![message.id] =
                   [IdleTask EXCEPT !.pc = "creating", !.path = "create",
                                    !.user = message.recipient_user_id,
                                    !.cr = nalloc + 1]]
    /\ last' = Op("notification_create", message.id, NoRoom)
    /\ UNCHANGED <<rooms_pending, user_rooms_pending, sent, unhandled, faults>>

\* Lines 74-76: mark the user, call create_private_room, suspend.  The room the
\* homeserver will create for this request is the next unused room id.
NotifyCreate(message) ==
    /\ user_rooms_pending' = Put(user_rooms_pending, message.recipient_user_id, <<>>)
    /\ create_calls' = [create_calls EXCEPT ![message.recipient_user_id] = @ + 1]
    /\ nalloc' = nalloc + 1
    /\ task' = [task EXCEPT ![message.id] =
                   [IdleTask EXCEPT !.pc = "creating", !.path = "create",
                                    !.user = message.recipient_user_id,
                                    !.cr = nalloc + 1]]
    /\ last' = Op("notification_create", message.id, NoRoom)
    /\ UNCHANGED <<rooms_pending, sent, unhandled, faults>>

\* Mutant: the message for an existing room is queued for the room instead of
\* being sent
NotifyExisting_Enqueue(message, msg_room) ==
    /\ rooms_pending' =
           Put(rooms_pending, msg_room,
               Append(IF msg_room \in DOMAIN rooms_pending
                      THEN rooms_pending[msg_room] ELSE <<>>,
                      [message EXCEPT !.recipient_room_id = msg_room]))
    /\ task' = [task EXCEPT ![message.id] =
                   [IdleTask EXCEPT !.pc = "done", !.path = "existing",
                                    !.user = message.recipient_user_id,
                                    !.room = msg_room]]
    /\ last' = Op("notification_existing", message.id, msg_room)
    /\ UNCHANGED <<sent, user_rooms_pending, create_calls, nalloc, unhandled, faults>>

\* Lines 109-113: a private room with the user exists; send_message_to_room is
\* called and the handler is suspended on it
NotifyExisting(message, msg_room) ==
    \E raised \in Outcomes :
    /\ sent' = send_message_to_room(sent, client_rooms,
                                    [message EXCEPT !.recipient_room_id = msg_room],
                                    message.id, raised)
    /\ faults' = Spend(raised)
    /\ task' = [task EXCEPT ![message.id] =
                   [IdleTask EXCEPT !.pc = "sending",
                                    !.path = "existing",
                                    !.user = message.recipient_user_id,
                                    !.room = msg_room]]
    /\ last' = Op("notification_existing", message.id, msg_room)
    /\ UNCHANGED <<rooms_pending, user_rooms_pending, create_calls, nalloc, unhandled>>

\* notification(message) from its start to its first suspension or its return
\* (lines 55-76 and 109-113).
notification(message) ==
    /\ nsub' = message.id
    /\ UNCHANGED <<received_events, client_rooms, ev, nevents, create_resp, http, periphery>>
    /\ IF message.recipient_room_id # NoRoom
       THEN NotifyRoom(message)
       ELSE IF IsPendingUser(user_rooms_pending, message.recipient_user_id)
       THEN NotifyBuffered(message)
       ELSE LET msg_room == find_private_msg(client_rooms, message.recipient_user_id)
            IN  IF msg_room = NoRoom
                THEN NotifyCreate(message)
                ELSE NotifyExisting(message, msg_room)

\* Ingress hands over a valid message: exactly one of the two recipients is set.
Submit ==
    /\ nsub < MaxMsgs
    /\ \/ \E u \in Users : notification(Message(nsub + 1, u, NoRoom))
       \/ notification(Message(nsub + 1, None, PreRoom))

\* The send the handler of message m is suspended on ended in an exception
SendRaised(log, m) == \E i \in 1..Len(log) : log[i].by = m /\ log[i].raised

\* notification() resumed after the awaited send of line 65 or 113, its last
\* statement: the handler returns, or the exception of the send leaves it.
NotificationSent(m) ==
    /\ task[m].pc = "sending"
    /\ task' = [task EXCEPT ![m].pc = IF SendRaised(sent, m) THEN "raised" ELSE "done"]
    /\ unhandled' = IF SendRaised(sent, m) THEN unhandled \cup {m} ELSE unhandled
    /\ last' = Op("notification_sent", m, task[m].room)
    /\ UNCHANGED <<received_events, rooms_pending, user_rooms_pending, client_rooms, ev,
                   nsub, nalloc, nevents, sent, create_calls, create_resp, faults, http,
                   periphery>>

\* notification() resumed with a RoomCreateResponse (lines 77-100, 106-108).
CreateSuccess(m) ==
    LET recipient_id == task[m].user
        recipient_room_id == task[m].cr
        message == Message(m, recipient_id, recipient_room_id)
    IN
    /\ task[m].pc = "creating"
    /\ create_resp' = [create_resp EXCEPT ![recipient_id] = @ + 1]
    /\ UNCHANGED <<received_events, client_rooms, ev, nsub, nalloc, nevents, create_calls,
                   http, periphery>>
    /\ IF ~IsPendingUser(user_rooms_pending, recipient_id)
       THEN \* line 79 raises KeyError
            /\ task' = [task EXCEPT ![m].pc = "raised"]
            /\ unhandled' = unhandled \cup {m}
            /\ last' = Op("create_keyerror", m, recipient_room_id)
            /\ UNCHANGED <<rooms_pending, user_rooms_pending, sent, faults>>
       ELSE LET queue == QueueWithTrigger(
                             MigratedBuffer(user_rooms_pending, recipient_id,
                                            recipient_room_id), message)
                ack == RoomEncrypted(client_rooms, recipient_room_id)
            IN
            /\ user_rooms_pending' = Pop(user_rooms_pending, recipient_id)
            /\ rooms_pending' = Put(rooms_pending, recipient_room_id, queue)
            /\ unhandled' = unhandled
            /\ IF EncryptedBeforeAck(client_rooms, recipient_room_id)
               THEN \* lines 88-95: the loop runs up to the first awaited send
                    /\ \E raised \in Outcomes :
                          /\ sent' = IF Len(queue) > 0
                                     THEN send_message_to_room(sent, client_rooms,
                                              NextQueued(queue, 0), m, raised)
                                     ELSE sent
                          /\ faults' = IF Len(queue) > 0 THEN Spend(raised) ELSE faults
                    /\ task' = [task EXCEPT ![m].pc = "flush", ![m].path = "late_ready",
                                            ![m].room = recipient_room_id,
                                            ![m].ack_enc = ack,
                                            ![m].list = queue,
                                            ![m].idx = IF Len(queue) > 0 THEN 1 ELSE 0]
                    /\ last' = Op("create_flush", m, recipient_room_id)
               ELSE \* lines 106-108
                    /\ UNCHANGED <<sent, faults>>
                    /\ task' = [task EXCEPT ![m].pc = "done", ![m].path = "queued",
                                            ![m].room = recipient_room_id,
                                            ![m].ack_enc = ack,
                                            ![m].list = queue]
                    /\ last' = Op("create_queued", m, recipient_room_id)

\* notification() resumed with a RoomCreateError (lines 102-104): the room was
\* not created.
CreateFailure(m) ==
    /\ task[m].pc = "creating"
    /\ task[m].cr \notin RoomIds(client_rooms)
    /\ create_resp' = [create_resp EXCEPT ![task[m].user] = @ + 1]
    /\ task' = [task EXCEPT ![m].pc = "done", ![m].path = "failed"]
    /\ last' = Op("create_failed", m, NoRoom)
    /\ UNCHANGED <<received_events, rooms_pending, user_rooms_pending, client_rooms, ev,
                   nsub, nalloc, nevents, sent, create_calls, unhandled, faults, http, periphery>>

\* notification() resumed after an awaited send of its flush loop (lines 92-100):
\* the next message is sent, or the loop is over and the queue is popped.
NotificationFlush(m) ==
    LET t == task[m] IN
    /\ t.pc = "flush"
    /\ UNCHANGED <<received_events, user_rooms_pending, client_rooms, ev, nsub, nalloc,
                   nevents, create_calls, create_resp, http, periphery>>
    /\ IF t.idx < Len(t.list)
       THEN /\ \E raised \in Outcomes :
                  /\ sent' = send_message_to_room(sent, client_rooms,
                                                  NextQueued(t.list, t.idx), m, raised)
                  /\ faults' = Spend(raised)
            /\ task' = [task EXCEPT ![m].idx = t.idx + 1]
            /\ last' = Op("notification_flush_send", m, t.room)
            /\ UNCHANGED <<rooms_pending, unhandled>>
       ELSE IF t.room \in DOMAIN rooms_pending
       THEN /\ rooms_pending' = Pop(rooms_pending, t.room)
            /\ task' = [task EXCEPT ![m].pc = "done"]
            /\ last' = Op("notification_flush_pop", m, t.room)
            /\ UNCHANGED <<sent, unhandled, faults>>
       ELSE \* line 99: dict.pop of a missing key raises KeyError
            /\ task' = [task EXCEPT ![m].pc = "raised"]
            /\ unhandled' = unhandled \cup {m}
            /\ last' = Op("notification_flush_keyerror", m, t.room)
            /\ UNCHANGED <<rooms_pending, sent, faults>>

\* ----------------------------------------------------------- sync and events
\* A sync response brings a room the homeserver created into client.rooms: the
\* bot has joined it, the user is invited.
SyncRoom(rid) ==
    /\ ev.pc = "idle"
    /\ rid \in 1..nalloc
    /\ rid \notin RoomIds(client_rooms)
    /\ Creator(rid).path # "failed"
    /\ client_rooms' = Append(client_rooms, Room(rid, FALSE, {Bot}, {Invitee(rid)}))
    /\ last' = Op("sync_room", 0, rid)
    /\ UNCHANGED <<received_events, rooms_pending, user_rooms_pending, task, ev, nsub,
                   nalloc, nevents, sent, create_calls, create_resp, unhandled, faults,
                   http, periphery>>

\* room_encryption(room, event) from its start to its first suspension or return
\* (lines 166-176), on client.rooms as the sync response left it.
room_encryption(rooms, rid) ==
    LET key == FlushTarget(rooms_pending, rid) IN
    /\ UNCHANGED <<received_events, user_rooms_pending, unhandled, http, periphery>>
    /\ IF key \in DOMAIN rooms_pending
       THEN LET list == rooms_pending[key] IN
            IF Len(list) > 0
            THEN /\ \E raised \in Outcomes :
                       /\ sent' = send_message_to_room(sent, rooms, NextQueued(list, 0),
                                                       0, raised)
                       /\ faults' = Spend(raised)
                 /\ ev' = [pc |-> "flush", room |-> key, list |-> list, idx |-> 1]
                 /\ last' = Op("room_encryption_flush", 0, rid)
                 /\ UNCHANGED rooms_pending
            ELSE /\ rooms_pending' = Pop(rooms_pending, key)
                 /\ last' = Op("room_encryption_empty", 0, rid)
                 /\ UNCHANGED <<sent, ev, faults>>
       ELSE /\ last' = Op("room_encryption_noop", 0, rid)
            /\ UNCHANGED <<sent, ev, rooms_pending, faults>>

\* The sync loop processes the m.room.encryption event of a room it knows: the
\* room becomes encrypted and the callback runs.
EncryptionEvent(rid) ==
    /\ ev.pc = "idle"
    /\ rid \in RoomIds(client_rooms)
    /\ ~RoomAt(client_rooms, rid).encrypted
    /\ client_rooms' = SetRoom(client_rooms, rid,
                               [RoomAt(client_rooms, rid) EXCEPT !.encrypted = TRUE])
    /\ room_encryption(client_rooms', rid)
    /\ UNCHANGED <<task, nsub, nalloc, nevents, create_calls, create_resp>>

\* The event is delivered again (room_encryption does not consult
\* received_events); redeliveries count against MaxEvents.
EncryptionReplay(rid) ==
    /\ ev.pc = "idle"
    /\ rid \in RoomIds(client_rooms)
    /\ RoomAt(client_rooms, rid).encrypted
    /\ nevents < MaxEvents
    /\ nevents' = nevents + 1
    /\ room_encryption(client_rooms, rid)
    /\ UNCHANGED <<client_rooms, task, nsub, nalloc, create_calls, create_resp>>

\* room_encryption() resumed after an awaited send (lines 169-176).
EncryptionFlush ==
    /\ ev.pc = "flush"
    /\ UNCHANGED <<received_events, user_rooms_pending, client_rooms, task, nsub, nalloc,
                   nevents, create_calls, create_resp, http, periphery>>
    /\ IF ev.idx < Len(ev.list)
       THEN /\ \E raised \in Outcomes :
                  /\ sent' = send_message_to_room(sent, client_rooms,
                                                  NextQueued(ev.list, ev.idx), 0, raised)
                  /\ faults' = Spend(raised)
            /\ ev' = [ev EXCEPT !.idx = ev.idx + 1]
            /\ last' = Op("room_encryption_send", 0, ev.room)
            /\ UNCHANGED <<rooms_pending, unhandled>>
       ELSE IF ev.room \in DOMAIN rooms_pending
       THEN /\ rooms_pending' = Pop(rooms_pending, ev.room)
            /\ ev' = IdleEv
            /\ last' = Op("room_encryption_pop", 0, ev.room)
            /\ UNCHANGED <<sent, unhandled, faults>>
       ELSE \* line 176: dict.pop of a missing key raises KeyError
            /\ ev' = IdleEv
            /\ unhandled' = unhandled \cup {0}
            /\ last' = Op("room_encryption_keyerror", 0, ev.room)
            /\ UNCHANGED <<rooms_pending, sent, faults>>

\* member(room, event) from its start to its first suspension or return
\* (lines 131-151).
member(rid, event) ==
    /\ UNCHANGED <<rooms_pending, user_rooms_pending, sent, unhandled, faults, http, periphery>>
    /\ IF InNotificationsRoom(rid)
       THEN /\ last' = MemberOp("member_ignored", event, rid)
            /\ UNCHANGED <<received_events, ev>>
       ELSE LET r == should_process(trim_duplicates_caches(received_events),
                                    event.event_id)
            IN
            /\ received_events' = r.received_events
            /\ IF ~r.ok
               THEN last' = MemberOp("member_duplicate", event, rid) /\ UNCHANGED ev
               ELSE IF IsOwnEvent(event)
               THEN last' = MemberOp("member_self", event, rid) /\ UNCHANGED ev
               ELSE IF event.membership = "join"
               THEN \* line 151: await send_shared_history_keys
                    /\ ev' = [IdleEv EXCEPT !.pc = "keys", !.room = rid]
                    /\ last' = MemberOp("member_join", event, rid)
               ELSE last' = MemberOp("member_other", event, rid) /\ UNCHANGED ev

\* The event id of the m.room.member event by which user u joins room rid: one
\* id per event, the same when the event is delivered again
JoinEventId(rid, u) ==
    Cardinality(Users) * rid + (IF u = "@u1:hs" THEN 1 ELSE 2)

\* The sync loop processes the m.room.member event by which a user of a room
\* joins it (the invited user accepting, or that event delivered again): the
\* room's member lists are updated and the callback runs.  Membership events
\* count against MaxEvents.
MemberJoinEvent(rid) ==
    /\ ev.pc = "idle"
    /\ rid \in RoomIds(client_rooms)
    /\ nevents < MaxEvents
    /\ nevents' = nevents + 1
    /\ LET room == RoomAt(client_rooms, rid)
           who == room.users \cup room.invited_users
       IN  \E u \in who \ {Bot} :
            /\ client_rooms' = SetRoom(client_rooms, rid,
                   Room(rid, room.encrypted, room.users \cup {u},
                        room.invited_users \ {u}))
            /\ member(rid, [event_id |-> JoinEventId(rid, u), state_key |-> u,
                            sender |-> u, membership |-> "join"])
    /\ UNCHANGED <<task, nsub, nalloc, create_calls, create_resp>>

\* The m.room.member event that was delivered last, as long as `last` shows it
LatestEvent ==
    [event_id |-> last.id, state_key |-> last.state_key, sender |-> last.state_key,
     membership |-> last.membership]

MemberStepOps ==
    {"member_duplicate", "member_self", "member_join", "member_other",
     "member_keys_done"}

\* The first m.room.member event of the stream: the user invited to the room
\* that exists from the start accepts the invitation
FirstEvent ==
    [event_id |-> 1, state_key |-> "@u1:hs", sender |-> "@u1:hs", membership |-> "join"]

\* The sync loop processes one more m.room.member event of a room: a new event
\* (event ids are numbered as they are issued), which is the bot's own invite
\* or join, or the join or leave of a user of the room, applied to the room
\* before the callback runs; or an event delivered again, which is the latest
\* one or the oldest one the cache still holds when that is the first.
MemberEvent(rid) ==
    /\ ev.pc = "idle"
    /\ rid \in RoomIds(client_rooms)
    /\ nevents < MaxCacheEvents
    /\ LET room == RoomAt(client_rooms, rid)
           issued == {[event_id |-> nevents + 1, state_key |-> u, sender |-> u,
                       membership |-> membership] :
                          u \in (room.users \cup room.invited_users) \ {Bot},
                          membership \in {"join", "leave"}}
                     \cup
                     {[event_id |-> nevents + 1, state_key |-> Bot, sender |-> Bot,
                       membership |-> membership] : membership \in {"invite", "join"}}
           fresh == IF nevents = 0
                    THEN {event \in issued : event = FirstEvent /\ rid = PreRoom}
                    ELSE issued
           latest == IF last.op \in MemberStepOps /\ last.room = rid
                     THEN {LatestEvent} ELSE {}
           oldest == IF /\ rid = PreRoom
                        /\ Len(received_events) > 0
                        /\ received_events[Len(received_events)] = FirstEvent.event_id
                     THEN {FirstEvent} ELSE {}
           again == latest \cup oldest
       IN  \E event \in fresh \cup again :
            /\ nevents' = IF event \in fresh THEN nevents + 1 ELSE nevents
            /\ client_rooms' = SetRoom(client_rooms, rid,
                   IF event.state_key = Bot \/ event \notin fresh THEN room
                   ELSE IF event.membership = "join"
                   THEN Room(rid, room.encrypted, room.users \cup {event.state_key},
                             room.invited_users \ {event.state_key})
                   ELSE Room(rid, room.encrypted, room.users \ {event.state_key},
                             room.invited_users \ {event.state_key}))
            /\ member(rid, event)
    /\ UNCHANGED <<task, nsub, nalloc, create_calls, create_resp>>

\* A m.room.member event of the configured notifications room.  member() does
\* not look at its event id, which is left out of the numbering.
NotificationsRoomEvent ==
    /\ ev.pc = "idle"
    /\ \E u \in {Bot, "@u1:hs"}, membership \in {"join", "leave"} :
          member(NotificationsRoom, [event_id |-> 0, state_key |-> u, sender |-> u,
                                     membership |-> membership])
    /\ UNCHANGED <<client_rooms, task, nsub, nalloc, nevents, create_calls, create_resp>>

\* member() resumed after send_shared_history_keys (lines 152-155).
MemberKeysDone ==
    /\ ev.pc = "keys"
    /\ ev' = IdleEv
    /\ last' = [last EXCEPT !.op = "member_keys_done"]
    /\ UNCHANGED <<received_events, rooms_pending, user_rooms_pending, client_rooms, task,
                   nsub, nalloc, nevents, sent, create_calls, create_resp, unhandled,
                   faults, http, periphery>>

\* -------------------------------------------------------------------- Next
Next ==
    \/ Submit
    \/ \E m \in MsgIds : NotificationSent(m)
    \/ \E m \in MsgIds : CreateSuccess(m)
    \/ \E m \in MsgIds : CreateFailure(m)
    \/ \E m \in MsgIds : NotificationFlush(m)
    \/ \E rid \in AllRooms : SyncRoom(rid)
    \/ \E rid \in AllRooms : EncryptionEvent(rid)
    \/ \E rid \in AllRooms : EncryptionReplay(rid)
    \/ EncryptionFlush
    \/ \E rid \in AllRooms : MemberJoinEvent(rid)
    \/ MemberKeysDone

Spec == Init /\ [][Next]_vars

\* Runs in which up to MaxFaults calls of send_message_to_room raise: every
\* creation succeeds and every created room gets its encryption event, once.
FaultInit ==
    /\ Constructed
    /\ faults = MaxFaults

FaultNext ==
    \/ Submit
    \/ \E m \in MsgIds : NotificationSent(m)
    \/ \E m \in MsgIds : CreateSuccess(m)
    \/ \E m \in MsgIds : NotificationFlush(m)
    \/ \E rid \in AllRooms : SyncRoom(rid)
    \/ \E rid \in AllRooms : EncryptionEvent(rid)
    \/ EncryptionFlush

FaultSpec == FaultInit /\ [][FaultNext]_vars

\* The dedup cache on its own: a stream of membership events of the rooms the
\* bot is in, long enough to fill the cache and overflow it
CacheNext ==
    \/ \E rid \in AllRooms : MemberEvent(rid)
    \/ NotificationsRoomEvent
    \/ MemberKeysDone

CacheSpec == Init /\ [][CacheNext]_vars

\* The HTTP handler on its own, the coordinator at rest
IngressNext ==
    \/ Post
    \/ CallbackOnNone

IngressSpec == Init /\ [][IngressNext]_vars

\* A run in which every create_private_room call returns success, every created
\* room reaches client.rooms and gets its encryption event, and every suspended
\* handler is resumed.
LiveNext ==
    \/ Submit
    \/ \E m \in MsgIds : NotificationSent(m)
    \/ \E m \in MsgIds : CreateSuccess(m)
    \/ \E m \in MsgIds : NotificationFlush(m)
    \/ \E rid \in AllRooms : SyncRoom(rid)
    \/ \E rid \in AllRooms : EncryptionEvent(rid)
    \/ \E rid \in AllRooms : EncryptionReplay(rid)
    \/ EncryptionFlush
    \/ \E rid \in AllRooms : MemberJoinEvent(rid)
    \/ MemberKeysDone

Fairness ==
    /\ \A m \in MsgIds : WF_vars(CreateSuccess(m)) /\ WF_vars(NotificationFlush(m))
    /\ \A m \in MsgIds : WF_vars(NotificationSent(m))
    /\ \A rid \in AllRooms : WF_vars(SyncRoom(rid)) /\ WF_vars(EncryptionEvent(rid))
    /\ WF_vars(EncryptionFlush)
    /\ WF_vars(MemberKeysDone)

LiveSpec == Init /\ [][LiveNext]_vars /\ Fairness

\* ------------------------------------------------------------------ invite
\* Mutant: every invite member event is taken for the bot's own
IsOwnInvite_Always(event) == TRUE

\* Line 214: `event.state_key == self.client.user_id`
IsOwnInvite(event) == event.state_key = Bot

JoinResults == {"JoinError", "JoinResponse"}

\* One invocation of client.join(room_id), as logged: the invite event it is
\* made for (events are numbered as they are dispatched), the attempt and the
\* result, "pending" while the call is awaited
JoinRecord(event, room, state_key, attempt) ==
    [event |-> event, room |-> room, state_key |-> state_key, attempt |-> attempt,
     result |-> "pending"]

\* Mutant: the loop goes on for as long as join fails
RetryJoin_Unbounded(result, attempt) == result = "JoinError"

\* Lines 189-198: after a JoinError the `for attempt in range(3)` loop makes the
\* next attempt if one is left; any other result breaks out of the loop
RetryJoin(result, attempt) == result = "JoinError" /\ attempt + 1 < JoinAttempts

\* invite_event_filtered_callback(room, event) up to the first awaited join of
\* invite() (lines 214-216, 186-190), or to its return
invite_event_filtered_callback(rid, event) ==
    LET n == inv.event + 1 IN
    /\ IF IsOwnInvite(event)
       THEN /\ inv' = [pc |-> "joining", event |-> n, room |-> rid,
                       state_key |-> event.state_key, attempt |-> 0]
            /\ joins' = Append(joins, JoinRecord(n, rid, event.state_key, 0))
       ELSE /\ inv' = [pc |-> "idle", event |-> n, room |-> rid,
                       state_key |-> event.state_key, attempt |-> 0]
            /\ joins' = joins
    /\ UNCHANGED <<core, rl, found, legacy>>

\* The sync loop dispatches an InviteMemberEvent of a room's invite state: the
\* bot's own invite or the membership of another user of that room
InviteEvent ==
    /\ inv.pc = "idle"
    /\ inv.event < MaxInvites
    /\ \E rid \in AllRooms, state_key \in {Bot} \cup Users :
          invite_event_filtered_callback(rid, [state_key |-> state_key, sender |-> Bot])

\* invite() resumed with the result of client.join (lines 190-203)
JoinResult ==
    /\ inv.pc = "joining"
    /\ \E result \in JoinResults :
          LET answered == [joins EXCEPT ![Len(joins)].result = result] IN
          IF RetryJoin(result, inv.attempt)
          THEN /\ inv' = [inv EXCEPT !.attempt = inv.attempt + 1]
               /\ joins' = Append(answered, JoinRecord(inv.event, inv.room,
                                                       inv.state_key, inv.attempt + 1))
          ELSE /\ inv' = [inv EXCEPT !.pc = "idle"]
               /\ joins' = answered
    /\ UNCHANGED <<core, rl, found, legacy>>

InviteNext ==
    \/ InviteEvent
    \/ JoinResult

InviteSpec == Init /\ [][InviteNext]_vars

\* ---------------------------------------------------------- with_ratelimit
\* retry_after_ms is optional in an ErrorResponse; NoDelay stands for None
NoDelay == -1

DEADZONE == 50

\* What the wrapped client call can return: a response that is no ErrorResponse,
\* or an ErrorResponse with its status_code and retry_after_ms
Responses ==
    {[error |-> FALSE, status_code |-> None, retry_after_ms |-> NoDelay]}
    \cup
    [error : {TRUE}, status_code : {"M_LIMIT_EXCEEDED", "M_FORBIDDEN"},
     retry_after_ms : {NoDelay, 0, 100, 1000}]

\* Lines 22-23: isinstance(response, nio.ErrorResponse) and
\* response.status_code == "M_LIMIT_EXCEEDED"
IsRateLimited(response) ==
    response.error /\ response.status_code = "M_LIMIT_EXCEEDED"

\* sleep_ms(delay_ms) (lines 7-11): the milliseconds slept, delay_ms + deadzone;
\* the sum raises TypeError when delay_ms is None
sleep_ms(delay_ms) ==
    IF delay_ms = NoDelay THEN [raised |-> TRUE, slept_ms |-> 0]
    ELSE [raised |-> FALSE, slept_ms |-> delay_ms + DEADZONE]

\* wrapper(*args) is called (lines 17-20): the first call of func is awaited
WrapperCall ==
    /\ rl.pc = "idle"
    /\ rl' = [rl EXCEPT !.pc = "calling", !.calls = 1]
    /\ UNCHANGED <<core, inv, joins, found, legacy>>

\* wrapper resumed with the response of func (lines 20-28): it returns the
\* response or goes to sleep for the back-off the response names
WrapperResponse ==
    /\ rl.pc = "calling"
    /\ \E response \in Responses :
          LET responses == Append(rl.responses, response) IN
          rl' = IF IsRateLimited(response)
                THEN IF sleep_ms(response.retry_after_ms).raised
                     THEN [rl EXCEPT !.pc = "raised", !.responses = responses]
                     ELSE [rl EXCEPT !.pc = "sleeping", !.responses = responses]
                ELSE [rl EXCEPT !.pc = "returned", !.responses = responses,
                                !.returned = Len(responses)]
    /\ UNCHANGED <<core, inv, joins, found, legacy>>

\* wrapper resumed after the sleep (line 24, then line 20 again); a run makes up
\* to MaxCalls calls of func
WrapperWake ==
    /\ rl.pc = "sleeping"
    /\ rl.calls < MaxCalls
    /\ rl' = [rl EXCEPT !.pc = "calling", !.calls = rl.calls + 1]
    /\ UNCHANGED <<core, inv, joins, found, legacy>>

RateLimitNext ==
    \/ WrapperCall
    \/ WrapperResponse
    \/ WrapperWake

RateLimitSpec == Init /\ [][RateLimitNext]_vars

\* -------------------------------------------------------- find_private_msg
\* The rooms client.rooms can hold when find_private_msg is called: the bot
\* alone or with a joined user, a user invited or nobody, and a member_count
\* as the room reports it
RoomStates ==
    [room_id : 1..MaxRooms, encrypted : {FALSE},
     users : {{Bot}, {Bot, "@u1:hs"}, {Bot, "@u2:hs"}},
     invited_users : {{}, {"@u1:hs"}},
     member_count : {2, 3}]

\* client.rooms with up to MaxRooms rooms, the i-th inserted having room id i
RoomLists ==
    UNION {{rooms \in [1..n -> RoomStates] : \A i \in 1..n : rooms[i].room_id = i} :
              n \in 0..MaxRooms}

FindInit ==
    /\ AtRest
    /\ client_rooms \in RoomLists
    /\ faults = 0

\* find_private_msg(client, mxid) is called (lines 48-61)
Find(mxid) ==
    /\ found' = [mxid |-> mxid, room |-> find_private_msg(client_rooms, mxid)]
    /\ UNCHANGED <<core, inv, joins, rl, legacy>>

FindNext == \E mxid \in Users \cup {Bot} : Find(mxid)

FindSpec == FindInit /\ [][FindNext]_vars

\* ------------------------------------------------------ legacy _send_task
\* `self.client.rooms.get(room_id) is None` (line 65)
RoomMissing(rooms, rid) == rid \notin RoomIds(rooms)

\* Mutant: the task does not look at the room's encryption
EncryptionMissing_Never(rooms, rid) == FALSE

\* `self.client.rooms[room_id].encrypted is False` (line 67)
EncryptionMissing(rooms, rid) == RoomAt(rooms, rid).encrypted = FALSE

WaitingPcs == {"wait_room", "wait_encrypted"}

\* The task parks on client.synced.wait() at `pc`
Parked(t, pc) == [t EXCEPT !.pc = pc, !.waits = @ + 1, !.woken = FALSE]

\* Line 69: send_method(room_id, content, type) is called and the task is
\* suspended on it
Sent(t) == [t EXCEPT !.pc = "sending", !.sends = @ + 1, !.woken = FALSE]

\* The second loop and the send (lines 67-69). client.rooms[room_id] raises
\* KeyError when the room is not there.
FromEncryptedLoop(t, rooms) ==
    IF RoomMissing(rooms, t.room) THEN [t EXCEPT !.pc = "raised", !.woken = FALSE]
    ELSE IF EncryptionMissing(rooms, t.room) THEN Parked(t, "wait_encrypted")
    ELSE Sent(t)

\* The first loop and what follows it (lines 65-69)
FromRoomLoop(t, rooms) ==
    IF RoomMissing(rooms, t.room) THEN Parked(t, "wait_room")
    ELSE FromEncryptedLoop(t, rooms)

\* _send_task(room_id, ...) is started and runs to its first await
StartSendTask(rid) ==
    /\ legacy.pc = "idle"
    /\ legacy' = FromRoomLoop([legacy EXCEPT !.room = rid], client_rooms)
    /\ UNCHANGED <<core, inv, joins, rl, found>>

\* synced.wait() returns after a sync and the task runs to its next await
ResumeSendTask ==
    /\ legacy.pc \in WaitingPcs
    /\ legacy.woken
    /\ legacy.waits < MaxWaits
    /\ legacy' = IF legacy.pc = "wait_room"
                  THEN FromRoomLoop(legacy, client_rooms)
                  ELSE FromEncryptedLoop(legacy, client_rooms)
    /\ UNCHANGED <<core, inv, joins, rl, found>>

\* The awaited send_method is over (line 69, the last statement): the task
\* returns, or the exception of send_method leaves it
SendMethodEnds(raised) ==
    /\ legacy.pc = "sending"
    /\ legacy' = [legacy EXCEPT !.pc = IF raised THEN "send_raised" ELSE "done"]
    /\ UNCHANGED <<core, inv, joins, rl, found>>

\* A sync has been handled: client.synced is set, which wakes a parked task
Synced(t) == IF t.pc \in WaitingPcs THEN [t EXCEPT !.woken = TRUE] ELSE t

\* A sync that changes no room
SyncQuiet ==
    /\ legacy' = Synced(legacy)
    /\ UNCHANGED <<received_events, rooms_pending, user_rooms_pending, client_rooms,
                   task, ev, nsub, nalloc, nevents, sent, create_calls, create_resp,
                   unhandled, last, faults, http, inv, joins, rl, found>>

\* A sync that brings a joined room into client.rooms
SyncNewRoom(rid, enc) ==
    /\ rid \notin RoomIds(client_rooms)
    /\ client_rooms' = Append(client_rooms, Room(rid, enc, {Bot}, {}))
    /\ legacy' = Synced(legacy)
    /\ UNCHANGED <<received_events, rooms_pending, user_rooms_pending,
                   task, ev, nsub, nalloc, nevents, sent, create_calls, create_resp,
                   unhandled, last, faults, http, inv, joins, rl, found>>

\* A sync that brings the m.room.encryption state of a room
SyncEncryption(rid) ==
    /\ rid \in RoomIds(client_rooms)
    /\ ~RoomAt(client_rooms, rid).encrypted
    /\ client_rooms' = SetRoom(client_rooms, rid,
                               [RoomAt(client_rooms, rid) EXCEPT !.encrypted = TRUE])
    /\ legacy' = Synced(legacy)
    /\ UNCHANGED <<received_events, rooms_pending, user_rooms_pending,
                   task, ev, nsub, nalloc, nevents, sent, create_calls, create_resp,
                   unhandled, last, faults, http, inv, joins, rl, found>>

LegacyInit ==
    /\ AtRest
    /\ client_rooms = <<>>
    /\ faults = 0

LegacyNext ==
    \/ \E rid \in 1..MaxRooms : StartSendTask(rid)
    \/ ResumeSendTask
    \/ \E raised \in BOOLEAN : SendMethodEnds(raised)
    \/ SyncQuiet
    \/ \E rid \in 1..MaxRooms, enc \in BOOLEAN : SyncNewRoom(rid, enc)
    \/ \E rid \in 1..MaxRooms : SyncEncryption(rid)

LegacySpec == LegacyInit /\ [][LegacyNext]_vars

\* ================================================================== claims
WasSent(id) == \E i \in 1..Len(sent) : sent[i].id = id

SentTo(id, rid) == \E i \in 1..Len(sent) : sent[i].id = id /\ sent[i].room = rid

FirstSend(id) ==
    CHOOSE i \in 1..Len(sent) : sent[i].id = id /\ \A j \in 1..(i - 1) : sent[j].id # id

\* Readiness of a room for a peer: the peer has joined and encryption is active
RoomReady(rooms, rid, user) ==
    IF rid \in RoomIds(rooms)
    THEN RoomAt(rooms, rid).encrypted /\ user \in RoomAt(rooms, rid).users
    ELSE FALSE

\* The notification() calls for u that found no existing room: they asked for
\* one or were buffered behind the request
NoRoomCallers(u) ==
    {m \in MsgIds : task[m].user = u /\ task[m].path \in {"create", "buffered"}}

\* The message that triggered creation m and the messages buffered behind it
Batch(m) ==
    {m} \cup
    {k \in MsgIds :
        /\ k > m
        /\ task[k].path = "buffered"
        /\ task[k].user = task[m].user
        /\ \A j \in (m + 1)..(k - 1) :
              task[j].user = task[m].user => task[j].path = "buffered"}

\* Room rid had a queue in rooms_pending and the queue has been removed
FlushCompleted(rid) ==
    /\ \E m \in MsgIds : task[m].cr = rid /\ task[m].path \in {"queued", "late_ready"}
    /\ rid \notin DOMAIN rooms_pending

EncryptionStartOps ==
    {"room_encryption_flush", "room_encryption_empty", "room_encryption_noop"}

\* C1: while no create_private_room response for user u has been handled, the
\* notification() calls for u that found no existing room, however many, have
\* caused exactly one create_private_room call; and at no time is a second
\* call made for u while one is awaiting its response.
C1_ExactlyOneCreation ==
    \A u \in Users :
        /\ create_calls[u] <= create_resp[u] + 1
        /\ (create_resp[u] = 0 /\ NoRoomCallers(u) # {}) => create_calls[u] = 1

C1_Witness ==
    \E u \in Users :
        /\ create_resp[u] = 0
        /\ Cardinality(NoRoomCallers(u)) >= 2
        /\ create_calls[u] = 1

\* C2: messages submitted for the same user are passed to send_message_to_room
\* in submission order; stated for the messages of one creation (the triggering
\* message and those buffered behind it, which go to the same room): each is
\* first sent after the ones submitted before it, the triggering one first.
C2_SubmissionOrder ==
    \A m \in MsgIds : \A a, b \in Batch(m) :
        (/\ task[m].path \in {"queued", "late_ready"}
         /\ a < b
         /\ WasSent(a)
         /\ WasSent(b)) => FirstSend(a) < FirstSend(b)

\* C3: no message addressed to a user is passed to send_message_to_room more
\* than once.
C3_SentAtMostOnce ==
    \A i, j \in 1..Len(sent) :
        (i # j /\ sent[i].user # None) => sent[i].id # sent[j].id

\* C4: a room_encryption event for a room whose queue has been flushed and
\* removed sends nothing and leaves rooms_pending, user_rooms_pending and
\* received_events as they were.
C4_NoopAfterFlush ==
    [][(last'.op \in EncryptionStartOps /\ FlushCompleted(last'.room)) =>
          /\ sent' = sent
          /\ rooms_pending' = rooms_pending
          /\ user_rooms_pending' = user_rooms_pending
          /\ received_events' = received_events]_vars

C4_Witness ==
    /\ last.op = "room_encryption_noop"
    /\ FlushCompleted(last.room)
    /\ \E i \in 1..Len(sent) : sent[i].room = last.room

\* C5: when the creation response for room R is handled with R already in
\* client.rooms and encrypted, the handler goes on to send the whole batch (the
\* buffered messages and the triggering one): while it runs it is in its flush
\* loop with a first message sent, and once it has ended every message of the
\* batch has been sent to R and rooms_pending has no entry for R.
C5_LateReadyFlushes ==
    \A m \in MsgIds :
        task[m].ack_enc =>
            /\ task[m].pc \in {"flush", "done", "raised"}
            /\ \E k \in Batch(m) : SentTo(k, task[m].cr)
            /\ task[m].pc \in {"done", "raised"} =>
                  /\ \A k \in Batch(m) : SentTo(k, task[m].cr)
                  /\ task[m].cr \notin DOMAIN rooms_pending

C5_Witness ==
    \E m \in MsgIds :
        /\ task[m].ack_enc
        /\ task[m].pc = "done"
        /\ Cardinality(Batch(m)) >= 2
        /\ \A k \in Batch(m) : SentTo(k, task[m].cr)

\* Message id sits in a queue of user_rooms_pending or rooms_pending
Queued(id) ==
    \/ \E u \in DOMAIN user_rooms_pending :
          \E k \in 1..Len(user_rooms_pending[u]) : user_rooms_pending[u][k].id = id
    \/ \E r \in DOMAIN rooms_pending :
          \E k \in 1..Len(rooms_pending[r]) : rooms_pending[r][k].id = id

\* C6: every message addressed to a user and accepted by notification() is
\* eventually passed to send_message_to_room and out of both queues.
C6_EventuallySent ==
    \A m \in MsgIds :
        (task[m].pc # "idle" /\ task[m].user # None) ~> (WasSent(m) /\ ~Queued(m))

C6_Witness ==
    \E m, k \in MsgIds :
        /\ task[m].path = "queued"
        /\ k \in Batch(m) \ {m}
        /\ WasSent(m) /\ ~Queued(m)
        /\ WasSent(k) /\ ~Queued(k)

\* C7: when the handler returns after a failed create_private_room for user u,
\* u is no longer in user_rooms_pending.
C7_FailureClearsPending ==
    last.op = "create_failed" => task[last.id].user \notin DOMAIN user_rooms_pending

\* C8: every send of a message that was addressed to a user goes to a room that
\* is encrypted at the moment of the send.
C8_SendsOnlyToEncrypted ==
    \A i \in 1..Len(sent) : sent[i].user # None => sent[i].encrypted

\* C9: a message for which notification() found an existing room that is not
\* ready is not sent but appended to that room's queue in rooms_pending.
C9_ExistingNotReadyQueued ==
    (/\ last.op = "notification_existing"
     /\ ~RoomReady(client_rooms, last.room, task[last.id].user)) =>
        /\ ~WasSent(last.id)
        /\ last.room \in DOMAIN rooms_pending
        /\ \E k \in 1..Len(rooms_pending[last.room]) :
              rooms_pending[last.room][k].id = last.id

\* C10: when notification() finds an existing room that is ready for the user,
\* the call sends the message to that room and changes neither rooms_pending nor
\* user_rooms_pending.
C10_ExistingReadySendsNow ==
    [][(/\ last'.op = "notification_existing"
        /\ RoomReady(client_rooms, last'.room, task'[last'.id].user)) =>
          /\ Len(sent') = Len(sent) + 1
          /\ SubSeq(sent', 1, Len(sent)) = sent
          /\ sent'[Len(sent')].id = last'.id
          /\ sent'[Len(sent')].room = last'.room
          /\ rooms_pending' = rooms_pending
          /\ user_rooms_pending' = user_rooms_pending]_vars

C10_Witness ==
    /\ last.op = "notification_existing"
    /\ RoomReady(client_rooms, last.room, task[last.id].user)
    /\ SentTo(last.id, last.room)

\* Message id sits in some queue other than rooms_pending[rid]
QueuedElsewhere(id, rid) ==
    \/ \E u \in DOMAIN user_rooms_pending :
          \E k \in 1..Len(user_rooms_pending[u]) : user_rooms_pending[u][k].id = id
    \/ \E r \in DOMAIN rooms_pending \ {rid} :
          \E k \in 1..Len(rooms_pending[r]) : rooms_pending[r][k].id = id

\* C11: when notification() has handled a successful creation response for a
\* room R that is not yet encrypted, rooms_pending[R] holds exactly the messages
\* submitted for the user since the creation was requested, the triggering one
\* included, in submission order, and none of them is in another queue.
C11_QueueInSubmissionOrder ==
    last.op = "create_queued" =>
        /\ last.room \in DOMAIN rooms_pending
        /\ LET queue == rooms_pending[last.room] IN
            /\ {queue[i].id : i \in 1..Len(queue)} = Batch(last.id)
            /\ Len(queue) = Cardinality(Batch(last.id))
            /\ \A i, j \in 1..Len(queue) : i < j => queue[i].id < queue[j].id
        /\ \A k \in Batch(last.id) : ~QueuedElsewhere(k, last.room)

\* C12: when member() processes a new 'join' event of a user other than the bot
\* for a room that has queued messages and is ready for their recipient, it
\* starts the flush of that room: a queued message is sent and the handler is in
\* its flush loop, or the room's entry is gone from rooms_pending.
C12_JoinFlushes ==
    [][(/\ last'.op = "member_join"
        /\ last'.room \in DOMAIN rooms_pending
        /\ Len(rooms_pending[last'.room]) > 0
        /\ RoomReady(client_rooms', last'.room,
                     rooms_pending[last'.room][1].recipient_user_id)) =>
          \/ last'.room \notin DOMAIN rooms_pending'
          \/ /\ ev'.pc = "flush"
             /\ ev'.room = last'.room
             /\ Len(sent') > Len(sent)]_vars

FlushSendOps ==
    {"create_flush", "notification_flush_send", "room_encryption_flush",
     "room_encryption_send"}

\* C13: a queued message is sent by a flush only while its room is encrypted and
\* its recipient is a joined member of the room.
C13_FlushOnlyWhenReady ==
    (last.op \in FlushSendOps /\ Len(sent) > 0) =>
        /\ sent[Len(sent)].encrypted
        /\ sent[Len(sent)].joined

\* C14: received_events never holds more than DUPLICATES_CACHE_SIZE ids after a
\* member() handler, and after DUPLICATES_CACHE_SIZE + 1 distinct event ids it
\* holds the DUPLICATES_CACHE_SIZE most recent ones, most recent first.
C14_CacheBounded ==
    /\ Len(received_events) <= DUPLICATES_CACHE_SIZE
    /\ nevents = DUPLICATES_CACHE_SIZE + 1 =>
          /\ Len(received_events) = DUPLICATES_CACHE_SIZE
          /\ \A i \in 1..Len(received_events) : received_events[i] = nevents + 1 - i

MemberOps == {"member_duplicate", "member_self", "member_join", "member_other"}

\* C15: should_process(event_id), applied to the cache as member() hands it
\* over, returns False and leaves the cache as it is when event_id is in it;
\* otherwise it returns True and the new cache is the old one with event_id put
\* in front.
C15_ShouldProcess ==
    [][last'.op \in MemberOps =>
          LET re == trim_duplicates_caches(received_events)
              event_id == last'.id
          IN  IF \E i \in 1..Len(re) : re[i] = event_id
              THEN /\ last'.op = "member_duplicate"
                   /\ received_events' = re
              ELSE /\ last'.op # "member_duplicate"
                   /\ Len(received_events') = Len(re) + 1
                   /\ received_events'[1] = event_id
                   /\ \A i \in 1..Len(re) : received_events'[i + 1] = re[i]]_vars

C15_Witness ==
    /\ last.op = "member_duplicate"
    /\ Len(received_events) >= 2
    /\ \E i \in 1..Len(received_events) : received_events[i] = last.id

\* The number of calls of send_message_to_room that handler `by` made for
\* message id in room rid
Attempts(log, by, rid, id) ==
    Cardinality({i \in 1..Len(log) :
                    log[i].by = by /\ log[i].room = rid /\ log[i].id = id})

\* C16: when a flush ends (in room_encryption() or in notification() after the
\* creation response), every message of the queue it iterated has been attempted
\* exactly once by it, whichever of the sends raised, and rooms_pending has no
\* entry for the room.
C16_FlushAttemptsAll ==
    [][/\ last'.op \in {"room_encryption_pop", "room_encryption_keyerror"} =>
            /\ \A i \in 1..Len(ev.list) :
                  Attempts(sent', 0, ev.room, ev.list[i].id) = 1
            /\ ev.room \notin DOMAIN rooms_pending'
       /\ last'.op \in {"notification_flush_pop", "notification_flush_keyerror"} =>
            /\ \A i \in 1..Len(task[last'.id].list) :
                  Attempts(sent', last'.id, task[last'.id].room,
                           task[last'.id].list[i].id) = 1
            /\ task[last'.id].room \notin DOMAIN rooms_pending']_vars

C16_Witness ==
    /\ last.op \in {"room_encryption_pop", "notification_flush_pop"}
    /\ last.room \notin DOMAIN rooms_pending
    /\ \E i, j \in 1..Len(sent) :
          /\ i < j
          /\ sent[i].raised
          /\ sent[i].room = last.room
          /\ sent[j].room = last.room
          /\ sent[j].by = sent[i].by
          /\ sent[j].id # sent[i].id

\* C17: initiate_callback hands the message to the callback, once, and answers
\* 200 exactly when the message is not None and is valid; otherwise it answers
\* 400 and schedules nothing.
C17_ScheduledIffValid ==
    http.called =>
        IF ~http.message.none /\ http.message.is_valid
        THEN http.status = 200 /\ http.scheduled = <<http.message>>
        ELSE http.status = 400 /\ http.scheduled = <<>>

C17_Witness ==
    /\ http.called
    /\ ~http.message.none
    /\ http.message.recipient_user_id # NoHeader
    /\ ~http.message.is_valid
    /\ http.status = 400
    /\ http.scheduled = <<>>

\* C18: for every request that gets as far as building its message, a message
\* is built; if it is valid exactly one of its recipient ids is set; a Send-To
\* matching '@.*:.*' sets only the user id, one matching '!.*:.*' only the room
\* id, and any other Send-To sets neither and leaves the message invalid.
C18_ExactlyOneRecipient ==
    (/\ http.api_ok
     /\ http.content_type \in ContentTypes
     /\ ~(http.content_type = "multipart/form-data" /\ ~http.body_ok)) =>
        LET message == http.message
            to == http.send_to
        IN  /\ ~message.none
            /\ message.is_valid =>
                  (message.recipient_user_id # NoHeader) #
                  (message.recipient_room_id # NoHeader)
            /\ re_match("@", to) =>
                  /\ message.recipient_user_id = to
                  /\ message.recipient_room_id = NoHeader
            /\ re_match("!", to) =>
                  /\ message.recipient_room_id = to
                  /\ message.recipient_user_id = NoHeader
            /\ (~re_match("@", to) /\ ~re_match("!", to)) =>
                  /\ message.recipient_user_id = NoHeader
                  /\ message.recipient_room_id = NoHeader
                  /\ ~message.is_valid

\* C19: no handler of the coordinator ends with an unhandled exception.
C19_NoUnhandledException == unhandled = {}

\* The first create_private_room call for u has been answered with a room
FirstCreationSucceeded(u) ==
    \E m \in MsgIds :
        /\ task[m].user = u
        /\ task[m].path \in {"queued", "late_ready"}
        /\ \A k \in 1..(m - 1) : task[k].user = u => task[k].cr = NoRoom

\* C20: for a user whose first room creation succeeded create_private_room is
\* called at most once, whenever the later notification() calls arrive.
C20_AtMostOneCreation ==
    \A u \in Users : FirstCreationSucceeded(u) => create_calls[u] <= 1

\* Message id sits in the queue of room rid / in the buffer of some user
InRoomQueue(id, rid) ==
    /\ rid \in DOMAIN rooms_pending
    /\ \E k \in 1..Len(rooms_pending[rid]) : rooms_pending[rid][k].id = id

InUserBuffer(id) ==
    \E u \in DOMAIN user_rooms_pending :
        \E k \in 1..Len(user_rooms_pending[u]) : user_rooms_pending[u][k].id = id

\* No message is both in user_rooms_pending and in rooms_pending
NoneInBoth ==
    \A id \in MsgIds : InUserBuffer(id) => \A rid \in AllRooms : ~InRoomQueue(id, rid)

\* Every message of a batch whose creation response has been handled is in the
\* room's queue or has been sent to the room
NoneLost ==
    \A m \in MsgIds :
        task[m].path \in {"queued", "late_ready"} =>
            \A k \in Batch(m) : InRoomQueue(k, task[m].cr) \/ SentTo(k, task[m].cr)

\* C21: the handling of a successful creation response for user U moves U's
\* buffer into rooms_pending[R] and removes U from user_rooms_pending in one
\* step: the step takes U's entry away, leaves the other users' buffers alone
\* and makes rooms_pending[R] the buffered messages in their order followed by
\* the triggering one; and after every step no message is both in
\* user_rooms_pending and in rooms_pending, and every message submitted for U
\* while the creation was pending is in rooms_pending[R] or has been sent to R.
C21_AtomicMove ==
    [][/\ last'.op \in {"create_queued", "create_flush"} =>
            LET u == task[last'.id].user
                R == last'.room
            IN  /\ u \in DOMAIN user_rooms_pending
                /\ DOMAIN user_rooms_pending' = DOMAIN user_rooms_pending \ {u}
                /\ \A v \in DOMAIN user_rooms_pending' :
                      user_rooms_pending'[v] = user_rooms_pending[v]
                /\ R \in DOMAIN rooms_pending'
                /\ [i \in 1..Len(rooms_pending'[R]) |-> rooms_pending'[R][i].id] =
                      [i \in 1..Len(user_rooms_pending[u]) |->
                          user_rooms_pending[u][i].id] \o <<last'.id>>
       /\ NoneInBoth'
       /\ NoneLost']_vars

C21_Witness ==
    /\ last.op = "create_queued"
    /\ Cardinality(Batch(last.id)) >= 2
    /\ \A k \in Batch(last.id) : InRoomQueue(k, last.room) /\ ~InUserBuffer(k)
    /\ task[last.id].user \notin DOMAIN user_rooms_pending

\* C22: a notification() call for a user U that is in user_rooms_pending only
\* appends its message to U's buffer: nothing is sent, no room is requested,
\* rooms_pending and the other entries of user_rooms_pending stay as they were.
C22_BufferedOnlyAppends ==
    [][(/\ nsub' = nsub + 1
        /\ task'[nsub'].user \in DOMAIN user_rooms_pending) =>
          LET u == task'[nsub'].user IN
          /\ last'.op = "notification_buffered"
          /\ task'[nsub'].pc = "done"
          /\ sent' = sent
          /\ create_calls' = create_calls
          /\ nalloc' = nalloc
          /\ rooms_pending' = rooms_pending
          /\ DOMAIN user_rooms_pending' = DOMAIN user_rooms_pending
          /\ user_rooms_pending'[u] =
                 Append(user_rooms_pending[u], Message(nsub', u, NoRoom))
          /\ \A v \in DOMAIN user_rooms_pending \ {u} :
                 user_rooms_pending'[v] = user_rooms_pending[v]]_vars

C22_Witness ==
    /\ last.op = "notification_buffered"
    /\ task[last.id].user \in DOMAIN user_rooms_pending
    /\ InUserBuffer(last.id)
    /\ ~WasSent(last.id)
    /\ create_calls[task[last.id].user] = 1

\* The number of calls of send_message_to_room made for message id
Sends(log, id) == Cardinality({i \in 1..Len(log) : log[i].id = id})

\* C23: a notification() call for a message whose recipient_room_id is set
\* sends the message to that room in the same step, leaves user_rooms_pending,
\* rooms_pending and received_events as they were and requests no room; and the
\* message is never sent a second time, neither while the handler is suspended
\* on the send nor after it.
C23_RoomMessageSentAtOnce ==
    [][/\ last'.op = "notification_room" =>
            /\ Len(sent') = Len(sent) + 1
            /\ SubSeq(sent', 1, Len(sent)) = sent
            /\ sent'[Len(sent')].id = last'.id
            /\ sent'[Len(sent')].room = last'.room
            /\ sent'[Len(sent')].by = last'.id
            /\ last'.room # NoRoom
            /\ user_rooms_pending' = user_rooms_pending
            /\ rooms_pending' = rooms_pending
            /\ received_events' = received_events
            /\ create_calls' = create_calls
            /\ nalloc' = nalloc
       /\ \A m \in MsgIds : task'[m].path = "room" => Sends(sent', m) = 1]_vars

C23_Witness ==
    /\ last.op = "notification_sent"
    /\ task[last.id].path = "room"
    /\ task[last.id].pc = "done"
    /\ Sends(sent, last.id) = 1
    /\ SentTo(last.id, last.room)
    /\ DOMAIN user_rooms_pending # {}

\* The creation response of m found the room not encrypted: the handler has
\* returned and sent nothing, and while the room is not encrypted in client.rooms
\* the whole batch is unsent and in the room's queue
QueuedUntilEncrypted(m) ==
    (task[m].path \in {"queued", "late_ready"} /\ ~task[m].ack_enc) =>
        /\ task[m].pc = "done"
        /\ \A i \in 1..Len(sent) : sent[i].by # m
        /\ ~RoomEncrypted(client_rooms, task[m].cr) =>
              \A k \in Batch(m) : ~WasSent(k) /\ InRoomQueue(k, task[m].cr)

\* C24: the step in which notification() handles a successful creation response
\* for a room R that client.rooms does not show as encrypted sends nothing; the
\* handler has returned and never sends a message of the batch, and as long as
\* no room_encryption event for R has been processed (R is not encrypted in
\* client.rooms) every message of the batch is unsent and in rooms_pending[R].
C24_NothingSentBeforeEncryption ==
    [][/\ (/\ last'.op \in {"create_queued", "create_flush"}
           /\ ~RoomEncrypted(client_rooms, last'.room)) =>
               /\ sent' = sent
               /\ last'.op = "create_queued"
       /\ \A m \in MsgIds : QueuedUntilEncrypted(m)']_vars

C24_Witness ==
    \E m \in MsgIds :
        /\ task[m].path = "queued"
        /\ ~task[m].ack_enc
        /\ task[m].cr \in RoomIds(client_rooms)
        /\ ~RoomEncrypted(client_rooms, task[m].cr)
        /\ Cardinality(Batch(m)) >= 2
        /\ \A k \in Batch(m) : ~WasSent(k) /\ InRoomQueue(k, task[m].cr)

\* Queued messages name the room they are queued for, and every send of a
\* message that went through a queue goes to the room of its creation request
CorrectChannel ==
    /\ \A r \in DOMAIN rooms_pending : \A i \in 1..Len(rooms_pending[r]) :
          rooms_pending[r][i].recipient_room_id = r
    /\ \A m \in MsgIds : \A i \in 1..Len(task[m].list) :
          task[m].list[i].recipient_room_id = task[m].cr
    /\ \A i \in 1..Len(ev.list) : ev.list[i].recipient_room_id = ev.room
    /\ \A i \in 1..Len(sent) :
          task[sent[i].id].path \in {"queued", "late_ready", "buffered"} =>
              \E m \in MsgIds :
                  /\ task[m].cr = sent[i].room
                  /\ task[m].user = sent[i].user
                  /\ sent[i].id \in Batch(m)

\* C25: after every step (at every suspension point) each message stored in
\* rooms_pending[R], and each message of a queue a flush is iterating, has
\* recipient_room_id = R; and every send of a message that went through a queue
\* goes to the room created by the request the message triggered or was
\* buffered behind, a room whose invited user is the message's recipient.
C25_CorrectChannel == [][CorrectChannel']_vars

C25_Witness ==
    /\ ev.pc = "flush"
    /\ ev.room \in DOMAIN rooms_pending
    /\ Len(rooms_pending[ev.room]) >= 2
    /\ \A i \in 1..Len(rooms_pending[ev.room]) :
          rooms_pending[ev.room][i].recipient_room_id = ev.room
    /\ Len(sent) > 0
    /\ sent[Len(sent)].room = ev.room
    /\ sent[Len(sent)].id = rooms_pending[ev.room][1].id

\* C26: trim_duplicates_caches(), as member() runs it before should_process,
\* leaves received_events as it is when it holds at most DUPLICATES_CACHE_SIZE
\* ids and otherwise cuts it down to its first DUPLICATES_CACHE_SIZE entries in
\* their order.  The trimmed cache is read off the step: it is the new cache,
\* less the id should_process put in front when the event was not a duplicate.
C26_TrimKeepsHead ==
    [][last'.op \in MemberOps =>
          LET trimmed == IF last'.op = "member_duplicate" THEN received_events'
                         ELSE Tail(received_events')
          IN  IF Len(received_events) <= DUPLICATES_CACHE_SIZE
              THEN trimmed = received_events
              ELSE /\ Len(trimmed) = DUPLICATES_CACHE_SIZE
                   /\ \A i \in 1..DUPLICATES_CACHE_SIZE :
                         trimmed[i] = received_events[i]]_vars

C26_Witness ==
    /\ last.op \in MemberOps
    /\ nevents = DUPLICATES_CACHE_SIZE + 2
    /\ Len(received_events) = DUPLICATES_CACHE_SIZE + 1
    /\ received_events[1] = nevents
    /\ received_events[Len(received_events)] = 2

\* C27: a membership event whose event_id is in received_events when it is
\* delivered is ignored by member(): no send_shared_history_keys call, no send,
\* and the state is left as the first delivery left it.
C27_ReplayIgnored ==
    [][(/\ last'.op \in MemberOps
        /\ \E i \in 1..Len(received_events) : received_events[i] = last'.id) =>
          /\ last'.op = "member_duplicate"
          /\ ev' = ev
          /\ sent' = sent
          /\ received_events' = received_events
          /\ rooms_pending' = rooms_pending
          /\ user_rooms_pending' = user_rooms_pending]_vars

\* Event id `id` is in received_events when the event is delivered: the event
\* is a duplicate
KnownEvent(re, id) == \E i \in 1..Len(re) : re[i] = id

\* C28: a membership event whose state_key is the bot never makes member()
\* call send_shared_history_keys, whatever its membership, and member() never
\* sends a message; member() calls send_shared_history_keys, once in the call,
\* only for an event that is not a duplicate (its id is not in received_events
\* when it is delivered), whose state_key is another user, whose membership is
\* 'join' and whose room is not the notifications room.
C28_OwnEventsIgnored ==
    [][/\ (last'.op \in MemberOps \cup {"member_ignored"}) =>
            /\ sent' = sent
            /\ last'.state_key = Bot => (ev' = ev /\ ev'.pc # "keys")
       /\ (ev'.pc = "keys" /\ ev.pc # "keys") =>
            /\ last'.op = "member_join"
            /\ last'.state_key # Bot
            /\ last'.membership = "join"
            /\ last'.room # NotificationsRoom
            /\ ev'.room = last'.room
            /\ ~KnownEvent(received_events, last'.id)]_vars

\* C29: a membership event of the configured notifications room is ignored by
\* member() altogether: received_events (the event's id is not recorded),
\* user_rooms_pending and rooms_pending stay as they were, nothing is sent and
\* send_shared_history_keys is not called.
C29_NotificationsRoomIgnored ==
    [][(/\ last'.op \in MemberOps \cup {"member_ignored"}
        /\ last'.room = NotificationsRoom) =>
          /\ last'.op = "member_ignored"
          /\ received_events' = received_events
          /\ user_rooms_pending' = user_rooms_pending
          /\ rooms_pending' = rooms_pending
          /\ sent' = sent
          /\ ev' = ev]_vars

C29_Witness ==
    /\ last.op = "member_ignored"
    /\ last.room = NotificationsRoom
    /\ last.state_key # Bot
    /\ last.membership = "join"
    /\ Len(received_events) >= 1
    /\ \A i \in 1..Len(received_events) : received_events[i] # last.id
    /\ ev.pc = "idle"

\* C30: a POST request whose Api-Key-Here header is not the configured API_KEY
\* (or is missing) schedules no callback, whatever its content type, Send-To
\* header and body.
C30_WrongKeyNeverSchedules ==
    http.api_key # API_KEY => http.scheduled = <<>>

\* The join calls made for invite event n, as positions in the log
JoinCalls(n) == {i \in 1..Len(joins) : joins[i].event = n}

\* C31: for every invite event invite() makes at most JoinAttempts (3) calls of
\* client.join, all for the invited room; every call but the last returned a
\* JoinError (no attempt follows a result that is not a JoinError); the handler
\* is suspended only in an awaited join; and once it has ended, its last call
\* either did not return a JoinError or was the third.
C31_AtMostThreeJoins ==
    /\ inv.pc = "joining" =>
          /\ joins # <<>>
          /\ joins[Len(joins)].result = "pending"
          /\ joins[Len(joins)].event = inv.event
    /\ \A n \in 1..inv.event :
          LET calls == JoinCalls(n) IN
          /\ Cardinality(calls) <= JoinAttempts
          /\ \A i, j \in calls :
                /\ joins[i].room = joins[j].room
                /\ i < j => (joins[i].result = "JoinError" /\ joins[j].attempt > joins[i].attempt)
          /\ (calls # {} /\ (n < inv.event \/ inv.pc = "idle")) =>
                \E i \in calls :
                    /\ \A j \in calls : j <= i
                    /\ joins[i].result \in JoinResults
                    /\ joins[i].result = "JoinError" => Cardinality(calls) = JoinAttempts

C31_Witness ==
    /\ inv.pc = "idle"
    /\ inv.event = 2
    /\ Cardinality(JoinCalls(1)) = JoinAttempts
    /\ \A i \in JoinCalls(1) : joins[i].result = "JoinError"
    /\ Cardinality(JoinCalls(2)) = 2
    /\ joins[Len(joins)].result = "JoinResponse"

\* C32: invite_event_filtered_callback() starts invite(), and with it a
\* client.join call, exactly for the invite events whose state_key is the bot's
\* own user id; an invite member event about another user leaves the join log
\* as it is and the callback returns at once.
C32_OnlyOwnInvitesJoin ==
    [][/\ inv'.event # inv.event =>
            IF inv'.state_key = Bot
            THEN /\ inv'.pc = "joining"
                 /\ Len(joins') = Len(joins) + 1
                 /\ joins'[Len(joins')].room = inv'.room
            ELSE /\ inv'.pc = "idle"
                 /\ joins' = joins
       /\ \A i \in 1..Len(joins') : joins'[i].state_key = Bot]_vars

C32_Witness ==
    /\ inv.pc = "idle"
    /\ inv.event = 2
    /\ inv.state_key # Bot
    /\ JoinCalls(1) # {}
    /\ JoinCalls(2) = {}

\* The wrapper has been called and is neither awaiting func nor sleeping
WrapperEnded == rl.pc \notin {"idle", "calling", "sleeping"}

\* C33: the with_ratelimit wrapper calls func again exactly once after each
\* rate-limited response and ends only by returning the first response that is
\* not rate-limited: while it runs, func has been called once for the first
\* attempt and once per rate-limited response already slept on; when it has
\* ended, the last response is not rate-limited, is the one returned, and all
\* responses before it were rate-limited.
C33_RetriesUntilNotLimited ==
    /\ rl.pc = "calling" =>
          /\ rl.calls = Len(rl.responses) + 1
          /\ \A i \in 1..Len(rl.responses) : IsRateLimited(rl.responses[i])
    /\ rl.pc = "sleeping" =>
          /\ rl.calls = Len(rl.responses)
          /\ \A i \in 1..Len(rl.responses) : IsRateLimited(rl.responses[i])
    /\ WrapperEnded =>
          /\ rl.calls = Len(rl.responses)
          /\ rl.returned = Len(rl.responses)
          /\ ~IsRateLimited(rl.responses[Len(rl.responses)])
          /\ \A i \in 1..(Len(rl.responses) - 1) : IsRateLimited(rl.responses[i])

\* Room i of client.rooms has member_count 2 and mxid among its joined or its
\* invited users
PrivateWith(i, mxid) ==
    /\ client_rooms[i].member_count = 2
    /\ mxid \in client_rooms[i].users \cup client_rooms[i].invited_users

\* C34: find_private_msg(client, mxid) returns None exactly when no room of
\* client.rooms has member_count 2 with mxid joined or invited; otherwise it
\* returns such a room, and no such room precedes it in iteration order.
C34_FirstPrivateRoom ==
    found.mxid # None =>
        /\ found.room = NoRoom <=>
              ~\E i \in 1..Len(client_rooms) : PrivateWith(i, found.mxid)
        /\ found.room # NoRoom =>
              \E i \in 1..Len(client_rooms) :
                  /\ client_rooms[i].room_id = found.room
                  /\ PrivateWith(i, found.mxid)
                  /\ \A j \in 1..(i - 1) : ~PrivateWith(j, found.mxid)

C34_Witness ==
    /\ found.mxid = "@u1:hs"
    /\ found.room = 2
    /\ Len(client_rooms) >= 2
    /\ client_rooms[1].member_count # 2
    /\ found.mxid \in client_rooms[1].users
    /\ found.mxid \notin client_rooms[2].users
    /\ found.mxid \in client_rooms[2].invited_users

\* C35: received_events never holds the same event id twice, whatever
\* should_process and trim_duplicates_caches calls came before.
C35_NoIdTwice ==
    Cardinality({received_events[i] : i \in 1..Len(received_events)})
        = Len(received_events)

C35_Witness ==
    /\ last.op = "member_duplicate"
    /\ nevents > DUPLICATES_CACHE_SIZE
    /\ Len(received_events) = DUPLICATES_CACHE_SIZE

\* The room is in client.rooms and is encrypted
PresentAndEncrypted(rooms, rid) ==
    \E i \in 1..Len(rooms) : rooms[i].room_id = rid /\ rooms[i].encrypted

\* The task ran up to an await: it was started, or it came back from
\* synced.wait()
SendTaskRan ==
    /\ legacy.pc \in WaitingPcs \cup {"idle"}
    /\ legacy'.pc # legacy.pc \/ legacy'.waits # legacy.waits

\* The task has called send_method: it is suspended on it, or the call is over
SendingPcs == {"sending", "done", "send_raised"}

\* C36: the legacy _send_task(room_id, ...) calls its send method at most once,
\* and that call is its last act; it calls it only when room_id is in
\* client.rooms and that room is encrypted, and does so as soon as it runs with
\* both true; while either is false it has sent nothing and is parked on
\* synced.wait().
C36_SendsOnceWhenReady ==
    [][/\ legacy'.sends <= 1
       /\ legacy'.pc \in SendingPcs <=> legacy'.sends = 1
       /\ legacy'.sends # legacy.sends =>
             /\ legacy.sends = 0
             /\ PresentAndEncrypted(client_rooms, legacy'.room)
       /\ SendTaskRan /\ PresentAndEncrypted(client_rooms, legacy'.room) =>
             /\ legacy'.pc = "sending"
             /\ legacy'.sends = 1
       /\ legacy'.pc # "idle" /\ ~PresentAndEncrypted(client_rooms', legacy'.room) =>
             /\ legacy'.sends = 0
             /\ legacy'.pc \in WaitingPcs]_vars

C36_Witness ==
    /\ legacy.pc = "done"
    /\ legacy.sends = 1
    /\ legacy.waits >= 2
    /\ PresentAndEncrypted(client_rooms, legacy.room)

====
